---- MODULE Spec2Model ----
(***************************************************************************)
(* State-machine model of detecto/visualize.py: the three entry points     *)
(* detect_video, plot_prediction_grid and show_labeled_image.  One run of  *)
(* the model is one call of one entry point; Init fixes the entry point    *)
(* and its arguments, the actions are the steps of its body.               *)
(***************************************************************************)
EXTENDS Integers, Sequences, FiniteSets, TLC

\* ---------------------------------------------------------------- bounds
\* Longest video source, in frames.
MaxFrames == 3
\* Largest number of images handed to plot_prediction_grid.
MaxImages == 4
\* Largest rows / cols value of a caller-chosen grid layout.
MaxDim == 4
\* Largest number of boxes handed to show_labeled_image.
MaxBoxes == 3

\* ------------------------------------------------------- program constants
\* scaled_size = 800
scaled_size == 800
\* ord("q")
ord_q == 113
\* the mask of cv2.waitKey(1) & 0xFF, as a modulus
key_mask == 256

None == "None"
\* dim=None, as a tuple
NoDim == << >>

\* ------------------------------------------------------------ environment
\* Boxes (x_min, y_min, x_max, y_max) the caller or the detector may supply.
\* The layer does not enforce x_min <= x_max, so one box is reversed.
BoxPool == { <<0, 0, 2, 3>>, <<1, 2, 4, 4>>, <<3, 1, 1, 0>> }

Det(l, b, s) == [label |-> l, box |-> b, score |-> s]

\* What the detector sees in an image: the full list of detections.
\* Scores are in hundredths (round(score, 2) * 100).
Scenes ==
    { << >>,
      << Det("tick", <<0, 0, 2, 3>>, 90) >>,
      << Det("tick", <<1, 2, 4, 4>>, 50), Det("tick", <<0, 0, 2, 3>>, 90) >>,
      << Det("gate", <<3, 1, 1, 0>>, 70), Det("tick", <<1, 2, 4, 4>>, 50) >> }

\* Images a caller may pass: normalized tensors or raw arrays.
ImagePool ==
    { [id |-> "a", kind |-> "array",  scene |-> << >>],
      [id |-> "b", kind |-> "tensor", scene |-> << Det("tick", <<0, 0, 2, 3>>, 90) >>],
      [id |-> "c", kind |-> "array",
       scene |-> << Det("tick", <<1, 2, 4, 4>>, 50), Det("tick", <<0, 0, 2, 3>>, 90) >>],
      [id |-> "d", kind |-> "tensor",
       scene |-> << Det("gate", <<3, 1, 1, 0>>, 70), Det("tick", <<1, 2, 4, 4>>, 50) >>] }

\* Frame sizes of a readable video source.
DimPool == {400, 800, 1600}

\* Key codes cv2.waitKey can return: -1 (no key), 'q', 'Q'.
KeyPool == {-1, 113, 81}

SeqUpTo(S, n) == UNION { [1..k -> S] : k \in 0..n }

Min(a, b) == IF a <= b THEN a ELSE b
Max(a, b) == IF a >= b THEN a ELSE b

\* ------------------------------------------------------------- rationals
\* Python's true division and float products, kept exact as n/d with d > 0.
Rat(n, d) == [n |-> n, d |-> d]
RatOfInt(x) == Rat(x, 1)
RatEq(a, b) == a.n * b.d = b.n * a.d
RatSubInt(a, k) == Rat(a.n - k * a.d, a.d)

\* --------------------------------------------------------------- detector
\* model.predict(image): every detected object, in the detector's order.
Predict(image) == image.scene

\* model.predict_top(image): of the detections of predict, for each distinct
\* label the single highest-scoring one (the first among equal scores).
PredictTop(image) ==
    LET all == Predict(image)
        top(k) == \A m \in 1..Len(all) :
                     (m # k /\ all[m].label = all[k].label) =>
                        \/ all[m].score < all[k].score
                        \/ (all[m].score = all[k].score /\ k < m)
        kept == SelectSeq([k \in 1..Len(all) |-> [det |-> all[k], keep |-> top(k)]],
                          LAMBDA e : e.keep)
    IN [k \in 1..Len(kept) |-> kept[k].det]

VARIABLES
    fn,                 \* the entry point this run calls
    pc,                 \* position in its body
    error,              \* the exception that left the call, or None
    calls,              \* detector calls made so far: <<[method, image]>>
    \* detect_video
    src,                \* input_file: [opened, width, height]
    video,              \* cv2.VideoCapture: "none" | "open" | "released"
    out,                \* cv2.VideoWriter:  "none" | "open" | "released"
    windows,            \* "untouched" | "destroyed" (cv2.destroyAllWindows)
    frame_width, frame_height,
    scale_down_factor,
    reads,              \* number of video.read() calls
    readLog,            \* frames read with ret = True, in order
    frame,              \* the frame being processed
    predictions,        \* predictions / preds of the current frame or image
    written,            \* frames passed to out.write, in order
    keyChecks,          \* number of cv2.waitKey calls
    quit,               \* a 'q' keypress has been observed
    \* plot_prediction_grid and show_labeled_image
    images,             \* argument images
    inDim,              \* argument dim
    dim,                \* local dim
    axes,               \* the axes of plt.subplots: key -> cell
    index, i, j,
    image,              \* local image
    inBoxes,            \* argument boxes: [ndim, data]
    boxes,              \* local boxes
    shown               \* plt.show() has been called

commonVars == <<fn, pc, error, calls>>
videoVars == <<src, video, out, windows, frame_width, frame_height,
               scale_down_factor, reads, readLog, frame, written, keyChecks, quit>>
plotVars == <<images, inDim, dim, axes, index, i, j, image, inBoxes, boxes, shown>>
vars == <<commonVars, videoVars, predictions, plotVars>>

\* ------------------------------------------------------------------ Init
CommonInit ==
    /\ pc = "start"
    /\ error = None
    /\ calls = << >>
    /\ predictions = << >>

VideoIdle ==
    /\ video = "none" /\ out = "none" /\ windows = "untouched"
    /\ frame_width = 0 /\ frame_height = 0
    /\ scale_down_factor = Rat(0, 1)
    /\ reads = 0 /\ readLog = << >> /\ frame = None
    /\ written = << >> /\ keyChecks = 0 /\ quit = FALSE

PlotIdle ==
    /\ dim = NoDim /\ axes = << >> /\ index = 0 /\ i = 0 /\ j = 0
    /\ boxes = None /\ shown = FALSE

NoSource == [opened |-> FALSE, width |-> 0, height |-> 0]

InitVideo ==
    /\ fn = "detect_video"
    /\ src \in {NoSource} \cup [opened : {TRUE}, width : DimPool, height : DimPool]
    /\ images = << >> /\ inDim = NoDim /\ inBoxes = None /\ image = None
    /\ CommonInit /\ VideoIdle /\ PlotIdle

InitGrid ==
    /\ fn = "plot_prediction_grid"
    /\ images \in SeqUpTo(ImagePool, MaxImages)
    /\ inDim \in {NoDim} \cup ((0..MaxDim) \X (0..MaxDim))
    /\ src = NoSource /\ inBoxes = None /\ image = None
    /\ CommonInit /\ VideoIdle /\ PlotIdle

InitOverlay ==
    /\ fn = "show_labeled_image"
    /\ image \in ImagePool
    /\ images = << >>
    /\ inBoxes \in [ndim : {1}, data : BoxPool]
                   \cup [ndim : {2}, data : SeqUpTo(BoxPool, MaxBoxes)]
    /\ src = NoSource /\ inDim = NoDim
    /\ CommonInit /\ VideoIdle /\ PlotIdle

Init == InitVideo \/ InitGrid \/ InitOverlay

\* ---------------------------------------------------------- detect_video
\* video.get(prop): 0 when the capture could not be opened.
VideoGet(prop) == IF src.opened THEN src[prop] ELSE 0

\* Faulty variant: the long side taken instead of the short side.
ScaleFactor_Max(h, w) == Rat(Max(h, w), scaled_size)
\* scale_down_factor = min(frame_height, frame_width) / scaled_size
ScaleFactor(h, w) == Rat(Min(h, w), scaled_size)

\* box *= scale_down_factor
ScaleBox(box, f) == [k \in 1..4 |-> Rat(box[k] * f.n, f.d)]

\* cv2.waitKey(1) & 0xFF
MaskKey(k) == k % key_mask

VideoOpen ==
    /\ fn = "detect_video" /\ pc = "start"
    /\ video' = "open"
    /\ frame_width' = VideoGet("width")
    /\ frame_height' = VideoGet("height")
    /\ scale_down_factor' = ScaleFactor(frame_height', frame_width')
    /\ out' = "open"
    /\ pc' = "read"
    /\ UNCHANGED <<fn, error, calls, src, windows, reads, readLog, frame, written,
                   keyChecks, quit, predictions, plotVars>>

\* ret, frame = video.read(); if not ret: break
ReadFrame ==
    /\ fn = "detect_video" /\ pc = "read"
    /\ reads' = reads + 1
    /\ \/ /\ src.opened /\ Len(readLog) < MaxFrames
          /\ \E s \in Scenes :
                frame' = [id |-> Len(readLog) + 1, scene |-> s,
                          rects |-> << >>, texts |-> << >>]
          /\ readLog' = Append(readLog, frame')
          /\ pc' = "predict"
       \/ /\ frame' = None
          /\ pc' = "release"
          /\ UNCHANGED readLog
    /\ UNCHANGED <<fn, error, calls, src, video, out, windows, frame_width,
                   frame_height, scale_down_factor, written, keyChecks, quit,
                   predictions, plotVars>>

\* transformed_frame = transform_frame(frame)
\* predictions = model.predict_top(transformed_frame)
TransformPredict ==
    /\ fn = "detect_video" /\ pc = "predict"
    /\ calls' = Append(calls, [method |-> "predict_top", image |-> frame.id])
    /\ \/ /\ predictions' = PredictTop(frame)
          /\ pc' = "draw"
          /\ UNCHANGED error
       \/ /\ error' = "DetectorError"
          /\ pc' = "raised"
          /\ UNCHANGED predictions
    /\ UNCHANGED <<fn, videoVars, plotVars>>

\* for label, box, score in zip(*predictions): scale, cv2.rectangle, cv2.putText
DrawPredictions ==
    /\ fn = "detect_video" /\ pc = "draw"
    /\ LET scaled == [k \in 1..Len(predictions) |->
                         ScaleBox(predictions[k].box, scale_down_factor)]
       IN frame' = [frame EXCEPT
                      !.rects = [k \in 1..Len(predictions) |->
                                   [p1 |-> <<scaled[k][1], scaled[k][2]>>,
                                    p2 |-> <<scaled[k][3], scaled[k][4]>>]],
                      !.texts = [k \in 1..Len(predictions) |->
                                   [label |-> predictions[k].label,
                                    score |-> predictions[k].score,
                                    org |-> <<scaled[k][1],
                                              RatSubInt(scaled[k][2], 10)>>]]]
    /\ pc' = "write"
    /\ UNCHANGED <<fn, error, calls, src, video, out, windows, frame_width,
                   frame_height, scale_down_factor, reads, readLog, written,
                   keyChecks, quit, predictions, plotVars>>

\* Faulty variant: a frame without predictions is not written.
WriteFrame_SkipEmpty ==
    /\ fn = "detect_video" /\ pc = "write"
    /\ written' = IF Len(predictions) > 0 THEN Append(written, frame) ELSE written
    /\ pc' = "waitkey"
    /\ UNCHANGED <<fn, error, calls, src, video, out, windows, frame_width,
                   frame_height, scale_down_factor, reads, readLog, frame,
                   keyChecks, quit, predictions, plotVars>>
\* out.write(frame)
WriteFrame ==
    /\ fn = "detect_video" /\ pc = "write"
    /\ written' = Append(written, frame)
    /\ pc' = "waitkey"
    /\ UNCHANGED <<fn, error, calls, src, video, out, windows, frame_width,
                   frame_height, scale_down_factor, reads, readLog, frame,
                   keyChecks, quit, predictions, plotVars>>

\* Faulty variant: the quit key is noticed but the loop goes on.
WaitKey_NoBreak ==
    /\ fn = "detect_video" /\ pc = "waitkey"
    /\ keyChecks' = keyChecks + 1
    /\ \E k \in KeyPool : quit' = (quit \/ MaskKey(k) = ord_q)
    /\ pc' = "read"
    /\ UNCHANGED <<fn, error, calls, src, video, out, windows, frame_width,
                   frame_height, scale_down_factor, reads, readLog, frame,
                   written, predictions, plotVars>>
\* key = cv2.waitKey(1) & 0xFF; if key == ord("q"): break
WaitKey ==
    /\ fn = "detect_video" /\ pc = "waitkey"
    /\ keyChecks' = keyChecks + 1
    /\ \E k \in KeyPool :
          IF MaskKey(k) = ord_q
             THEN quit' = TRUE /\ pc' = "release"
             ELSE quit' = quit /\ pc' = "read"
    /\ UNCHANGED <<fn, error, calls, src, video, out, windows, frame_width,
                   frame_height, scale_down_factor, reads, readLog, frame,
                   written, predictions, plotVars>>

\* Faulty variant: the writer is not released.
Release_NoWriter ==
    /\ fn = "detect_video" /\ pc = "release"
    /\ video' = "released"
    /\ windows' = "destroyed"
    /\ pc' = "done"
    /\ UNCHANGED <<fn, error, calls, src, out, frame_width, frame_height,
                   scale_down_factor, reads, readLog, frame, written, keyChecks,
                   quit, predictions, plotVars>>
\* video.release(); out.release(); cv2.destroyAllWindows()
Release ==
    /\ fn = "detect_video" /\ pc = "release"
    /\ video' = "released"
    /\ out' = "released"
    /\ windows' = "destroyed"
    /\ pc' = "done"
    /\ UNCHANGED <<fn, error, calls, src, frame_width, frame_height,
                   scale_down_factor, reads, readLog, frame, written, keyChecks,
                   quit, predictions, plotVars>>

VideoNext ==
    \/ VideoOpen \/ ReadFrame \/ TransformPredict \/ DrawPredictions
    \/ WriteFrame \/ WaitKey \/ Release

\* ---------------------------------------------------------------- figures
\* An axis of a figure: the images shown on it, its patches, texts and title.
EmptyCell == [shown |-> << >>, patches |-> << >>, texts |-> << >>, title |-> << >>]

\* plt.subplots(nrows, ncols) with squeeze=True: one Axes for a 1 x 1 grid,
\* a 1-D array when one side is 1, a 2-D array otherwise.
SubplotKeys(r, c) ==
    IF r = 1 /\ c = 1 THEN { << >> }
    ELSE IF r = 1 THEN { <<b>> : b \in 0..(c - 1) }
    ELSE IF c = 1 THEN { <<a>> : a \in 0..(r - 1) }
    ELSE { <<a, b>> : a \in 0..(r - 1), b \in 0..(c - 1) }

Subplots(r, c) == [k \in SubplotKeys(r, c) |-> EmptyCell]

\* transforms.ToPILImage()(t)
ToPILImage(img) == [img EXCEPT !.kind = IF @ = "tensor" THEN "pil_normalized" ELSE "pil"]
\* detecto.utils.reverse_normalize(t)
ReverseNormalize(img) == [img EXCEPT !.kind = "tensor_raw"]

\* ------------------------------------------------- plot_prediction_grid
\* if dim is None: dim = (len(images), 1)
DimOrDefault(d, n) == IF Len(d) = 0 THEN <<n, 1>> ELSE d

\* Faulty variant: only a grid that is too small is refused.
LayoutMismatch_Less(d, n) == d[1] * d[2] < n
\* if dim[0] * dim[1] != len(images): raise ValueError
LayoutMismatch(d, n) == d[1] * d[2] # n

\* preds = model.predict_top(image)
GridDetectMethod == "predict_top"
GridDetect(img) == PredictTop(img)

\* Faulty variant: row and column index exchanged.
AxisKey_Swapped(a, b, d) ==
    IF d[1] <= 1 /\ d[2] <= 1 THEN << >>
    ELSE IF d[1] <= 1 THEN <<a>>
    ELSE IF d[2] <= 1 THEN <<b>>
    ELSE <<b, a>>
\* Get the correct axis
AxisKey(a, b, d) ==
    IF d[1] <= 1 /\ d[2] <= 1 THEN << >>
    ELSE IF d[1] <= 1 THEN <<b>>
    ELSE IF d[2] <= 1 THEN <<a>>
    ELSE <<a, b>>

\* rect = patches.Rectangle(initial_pos, width, height, ...)
GridRect(box) ==
    [xy |-> <<box[1], box[2]>>, width |-> box[3] - box[1], height |-> box[4] - box[2]]

\* ax.imshow(image) and the loop over zip(*preds), on one axis
RenderCell(cell, img, preds, idx) ==
    [shown |-> Append(cell.shown, img),
     patches |-> cell.patches \o [k \in 1..Len(preds) |-> GridRect(preds[k].box)],
     texts |-> cell.texts \o
                 [k \in 1..Len(preds) |->
                    [pos |-> <<preds[k].box[1] + 5, preds[k].box[2] - 10>>,
                     label |-> preds[k].label, score |-> preds[k].score]],
     title |-> IF Len(preds) > 0 THEN <<"Image", idx>> ELSE cell.title]

GridValidate ==
    /\ fn = "plot_prediction_grid" /\ pc = "start"
    /\ dim' = DimOrDefault(inDim, Len(images))
    /\ IF LayoutMismatch(dim', Len(images))
          THEN /\ error' = "ValueError"
               /\ pc' = "raised"
               /\ UNCHANGED axes
          ELSE /\ axes' = Subplots(dim'[1], dim'[2])
               /\ pc' = IF dim'[1] > 0 /\ dim'[2] > 0 THEN "cell" ELSE "show"
               /\ UNCHANGED error
    /\ index' = 0 /\ i' = 0 /\ j' = 0
    /\ UNCHANGED <<fn, calls, videoVars, predictions, images, inDim, image,
                   inBoxes, boxes, shown>>

\* image = images[index]; preds = model.predict_top(image)
GridPredict ==
    /\ fn = "plot_prediction_grid" /\ pc = "cell"
    /\ IF index + 1 > Len(images)
          THEN /\ error' = "IndexError"
               /\ pc' = "raised"
               /\ UNCHANGED <<image, calls, predictions>>
          ELSE /\ image' = images[index + 1]
               /\ calls' = Append(calls, [method |-> GridDetectMethod, image |-> image'])
               /\ \/ /\ predictions' = GridDetect(image')
                     /\ pc' = "render"
                     /\ UNCHANGED error
                  \/ /\ error' = "DetectorError"
                     /\ pc' = "raised"
                     /\ UNCHANGED predictions
    /\ UNCHANGED <<fn, videoVars, images, inDim, dim, axes, index, i, j,
                   inBoxes, boxes, shown>>

\* the rest of the loop body: convert, index += 1, pick the axis, imshow,
\* boxes, texts and title; then the two for-loops advance
GridRender ==
    /\ fn = "plot_prediction_grid" /\ pc = "render"
    /\ image' = IF image.kind = "tensor"
                   THEN ToPILImage(ReverseNormalize(image)) ELSE image
    /\ index' = index + 1
    /\ LET key == AxisKey(i, j, dim)
       IN IF key \notin DOMAIN axes
             THEN /\ error' = "IndexError"
                  /\ pc' = "raised"
                  /\ UNCHANGED <<axes, i, j>>
             ELSE /\ axes' = [axes EXCEPT
                                ![key] = RenderCell(@, image', predictions, index')]
                  /\ UNCHANGED error
                  /\ IF j + 1 < dim[2]
                        THEN i' = i /\ j' = j + 1 /\ pc' = "cell"
                        ELSE IF i + 1 < dim[1]
                                THEN i' = i + 1 /\ j' = 0 /\ pc' = "cell"
                                ELSE i' = i /\ j' = j /\ pc' = "show"
    /\ UNCHANGED <<fn, calls, videoVars, predictions, images, inDim, dim,
                   inBoxes, boxes, shown>>

\* plt.show()
GridShow ==
    /\ fn = "plot_prediction_grid" /\ pc = "show"
    /\ shown' = TRUE
    /\ pc' = "done"
    /\ UNCHANGED <<fn, error, calls, videoVars, predictions, images, inDim, dim,
                   axes, index, i, j, image, inBoxes, boxes>>

GridNext == GridValidate \/ GridPredict \/ GridRender \/ GridShow

\* --------------------------------------------------- show_labeled_image
\* boxes.view(1, 4)
View14(b) == [ndim |-> 2, data |-> <<b.data>>]

\* Faulty variant: the far corner taken as width and height.
OverlayRect_NoSubtract(box) ==
    [xy |-> <<box[1], box[2]>>, width |-> box[3], height |-> box[4]]
\* width, height = box[2] - box[0], box[3] - box[1]; initial_pos = (box[0], box[1])
OverlayRect(box) ==
    [xy |-> <<box[1], box[2]>>, width |-> box[3] - box[1], height |-> box[4] - box[2]]

\* fig, ax = plt.subplots(1); convert a tensor; ax.imshow(image)
OverlayOpen ==
    /\ fn = "show_labeled_image" /\ pc = "start"
    /\ image' = IF image.kind = "tensor" THEN ToPILImage(image) ELSE image
    /\ axes' = [k \in DOMAIN Subplots(1, 1) |->
                  [EmptyCell EXCEPT !.shown = <<image'>>]]
    /\ pc' = "normalize"
    /\ UNCHANGED <<fn, error, calls, videoVars, predictions, images, inDim, dim,
                   index, i, j, inBoxes, boxes, shown>>

\* if boxes.ndim == 1: boxes = boxes.view(1, 4)
OverlayNormalize ==
    /\ fn = "show_labeled_image" /\ pc = "normalize"
    /\ boxes' = IF inBoxes.ndim = 1 THEN View14(inBoxes) ELSE inBoxes
    /\ index' = 0
    /\ pc' = IF Len(boxes'.data) > 0 THEN "plot" ELSE "show"
    /\ UNCHANGED <<fn, error, calls, videoVars, predictions, images, inDim, dim,
                   axes, i, j, image, inBoxes, shown>>

\* one iteration of: for box in boxes
OverlayPlot ==
    /\ fn = "show_labeled_image" /\ pc = "plot"
    /\ axes' = [axes EXCEPT ![<< >>].patches =
                   Append(@, OverlayRect(boxes.data[index + 1]))]
    /\ index' = index + 1
    /\ pc' = IF index' < Len(boxes.data) THEN "plot" ELSE "show"
    /\ UNCHANGED <<fn, error, calls, videoVars, predictions, images, inDim, dim,
                   i, j, image, inBoxes, boxes, shown>>

\* plt.show()
OverlayShow ==
    /\ fn = "show_labeled_image" /\ pc = "show"
    /\ shown' = TRUE
    /\ pc' = "done"
    /\ UNCHANGED <<fn, error, calls, videoVars, predictions, images, inDim, dim,
                   axes, index, i, j, image, inBoxes, boxes>>

OverlayNext == OverlayOpen \/ OverlayNormalize \/ OverlayPlot \/ OverlayShow

Next == VideoNext \/ GridNext \/ OverlayNext

Spec == Init /\ [][Next]_vars

\* ================================================================ claims
Grid == fn = "plot_prediction_grid"
Video == fn = "detect_video"
Overlay == fn = "show_labeled_image"

\* The layout the caller asked for does not hold the images.
BadLayout == inDim # NoDim /\ inDim[1] * inDim[2] # Len(images)

\* Rows and columns of the grid the caller asked for.
Rows == IF inDim = NoDim THEN Len(images) ELSE inDim[1]
Cols == IF inDim = NoDim THEN 1 ELSE inDim[2]

\* Where matplotlib keeps the axis of grid position (a, b) of an r x c grid.
CellKey(r, c, a, b) ==
    IF r = 1 /\ c = 1 THEN << >>
    ELSE IF r = 1 THEN <<b>>
    ELSE IF c = 1 THEN <<a>>
    ELSE <<a, b>>

\* C1: in plot_prediction_grid, whenever rows * cols differs from the number of
\* images the call ends with the layout error (ValueError), and then no
\* detector call has been made, no axis exists and nothing has been shown.
C1_InvalidLayoutFailsFirst ==
    (Grid /\ pc # "start" /\ BadLayout) =>
        /\ pc = "raised" /\ error = "ValueError"
        /\ calls = << >>
        /\ axes = << >>
        /\ ~shown

C1_Witness == Grid /\ BadLayout /\ pc = "raised" /\ Len(images) = 2 /\ inDim = <<2, 2>>

\* C2: in detect_video, a run that ends without a quit keypress and without a
\* detector error has written exactly as many frames as it read, and the k-th
\* written frame is the k-th read frame carrying one rectangle and one text
\* per top prediction of that frame.
C2_WrittenMatchesRead ==
    (Video /\ pc = "done" /\ ~quit) =>
        /\ error = None
        /\ Len(written) = Len(readLog)
        /\ \A k \in 1..Len(written) :
              /\ written[k].id = readLog[k].id
              /\ written[k].id = k
              /\ written[k].scene = readLog[k].scene
              /\ Len(written[k].rects) = Len(PredictTop(readLog[k]))
              /\ Len(written[k].texts) = Len(PredictTop(readLog[k]))

C2_Witness ==
    /\ Video /\ pc = "done" /\ ~quit
    /\ Len(readLog) = 3 /\ Len(written) = 3
    /\ Len(written[1].rects) = 0 /\ Len(written[2].rects) = 2

\* C3: detect_video releases the source and the sink and destroys the windows
\* on every exit path: end of source, early quit, and an error raised by the
\* detector inside the frame loop.
C3_ReleasedOnEveryExit ==
    (Video /\ pc \in {"done", "raised"}) =>
        /\ video = "released"
        /\ out = "released"
        /\ windows = "destroyed"

\* C4: in detect_video the quit key is checked once per frame (after the write
\* of that frame); once a quit keypress has been observed no further
\* video.read() is made and no further frame is written, the only step left is
\* the release, and the call returns with source and sink released.
C4_QuitState ==
    Video =>
        /\ keyChecks <= Len(written) /\ Len(written) <= keyChecks + 1
        /\ (pc = "read" => keyChecks = Len(readLog))
        /\ (quit => pc \in {"release", "done"})
        /\ (quit /\ pc = "done" => video = "released" /\ out = "released")

C4_QuitStep ==
    quit => /\ reads' = reads
            /\ readLog' = readLog
            /\ written' = written
            /\ keyChecks' = keyChecks

C4_QuitStopsAndReleases == [](C4_QuitState) /\ [][C4_QuitStep]_vars

C4_Witness ==
    /\ Video /\ quit /\ pc = "done"
    /\ Len(written) = 2 /\ keyChecks = 2 /\ reads = 2

\* C5: in plot_prediction_grid, when rows * cols equals the number N of images
\* (the default layout (N, 1) included) neither the layout error nor an index
\* error is raised, and a call that returns has passed each image to the
\* detector exactly once, in input order, and shows image number a*cols+b
\* (and nothing else) on the axis of grid position (a, b).
C5_ValidLayoutProcessesAll ==
    (Grid /\ ~BadLayout) =>
        /\ error \notin {"ValueError", "IndexError"}
        /\ (pc = "done" =>
              /\ Len(calls) = Len(images)
              /\ \A k \in 1..Len(images) : calls[k].image = images[k]
              /\ index = Len(images)
              /\ \A a \in 0..(Rows - 1) : \A b \in 0..(Cols - 1) :
                    LET cell == axes[CellKey(Rows, Cols, a, b)]
                    IN /\ Len(cell.shown) = 1
                       /\ cell.shown[1].id = images[a * Cols + b + 1].id)

C5_Witness ==
    /\ Grid /\ pc = "done" /\ inDim = <<2, 2>> /\ Len(images) = 4
    /\ images[2].id # images[3].id

\* C6: in plot_prediction_grid every detection that full detection (predict)
\* returns for an image is overlaid in that image's cell: the number of
\* rectangles in a cell equals the number of detections for its image, also
\* when several detections share one label.
C6_EveryDetectionDrawn ==
    (Grid /\ ~BadLayout /\ pc = "done") =>
        \A a \in 0..(Rows - 1) : \A b \in 0..(Cols - 1) :
            Len(axes[CellKey(Rows, Cols, a, b)].patches)
               = Len(Predict(images[a * Cols + b + 1]))

\* C7: after a successful plot_prediction_grid call every cell carries the
\* title 'Image k', k the 1-based position of its image, however many boxes
\* the detector returned for that image (zero included).
C7_EveryCellTitled ==
    (Grid /\ ~BadLayout /\ pc = "done") =>
        \A a \in 0..(Rows - 1) : \A b \in 0..(Cols - 1) :
            axes[CellKey(Rows, Cols, a, b)].title = <<"Image", a * Cols + b + 1>>

\* C8: show_labeled_image makes no detector call; given N x 4 boxes it draws
\* exactly N rectangles in input order, given one box of shape (4,) exactly
\* one; each rectangle is anchored at (box[0], box[1]) with
\* width = box[2] - box[0] and height = box[3] - box[1].
C8_OneRectanglePerBox ==
    Overlay =>
        /\ calls = << >>
        /\ (pc = "done" =>
              LET given == IF inBoxes.ndim = 1 THEN <<inBoxes.data>> ELSE inBoxes.data
                  drawn == axes[<< >>].patches
              IN /\ (inBoxes.ndim = 1 => Len(drawn) = 1)
                 /\ Len(drawn) = Len(given)
                 /\ \A k \in 1..Len(given) :
                       /\ drawn[k].xy = <<given[k][1], given[k][2]>>
                       /\ drawn[k].width = given[k][3] - given[k][1]
                       /\ drawn[k].height = given[k][4] - given[k][2])

C8_Witness ==
    /\ Overlay /\ pc = "done" /\ inBoxes.ndim = 2
    /\ inBoxes.data = << <<1, 2, 4, 4>>, <<3, 1, 1, 0>>, <<0, 0, 2, 3>> >>

\* C9: when the video source cannot be opened, detect_video raises nothing,
\* writes no frame, makes no detector call, and returns with the source and
\* the sink released.
C9_UnreadableSourceIsSilent ==
    (Video /\ ~src.opened) =>
        /\ error = None /\ pc # "raised"
        /\ written = << >>
        /\ readLog = << >>
        /\ calls = << >>
        /\ (pc = "done" => video = "released" /\ out = "released")

C9_Witness == Video /\ ~src.opened /\ pc = "done" /\ reads = 1

\* C10: in detect_video the downscale factor is
\* min(frame_height, frame_width) / 800 and every coordinate drawn on a frame
\* is the detector's coordinate times that factor; when the factor is 1 the
\* coordinates drawn equal the detector's raw coordinates.
C10_RescaleByFactor ==
    (Video /\ pc # "start") =>
        LET short == Min(frame_height, frame_width)
        IN /\ RatEq(scale_down_factor, Rat(short, 800))
           /\ \A k \in 1..Len(written) :
                 LET raw == PredictTop(readLog[k])
                     rects == written[k].rects
                 IN /\ Len(rects) = Len(raw)
                    /\ \A m \in 1..Len(raw) :
                          LET drawn == <<rects[m].p1[1], rects[m].p1[2],
                                         rects[m].p2[1], rects[m].p2[2]>>
                          IN \A c \in 1..4 :
                                /\ RatEq(drawn[c], Rat(raw[m].box[c] * short, 800))
                                /\ (RatEq(scale_down_factor, RatOfInt(1)) =>
                                       RatEq(drawn[c], RatOfInt(raw[m].box[c])))

C10_Witness ==
    /\ Video /\ pc = "done"
    /\ frame_height = 800 /\ frame_width = 1600
    /\ Len(written) = 2 /\ Len(written[2].rects) = 2
    /\ RatEq(written[2].rects[1].p2[2], RatOfInt(0))
    /\ RatEq(written[2].rects[2].p2[1], RatOfInt(4))
====
